---- MODULE Spec2Model ----
(***************************************************************************)
(* Model of the netbox_imact plugin: the plugin manifest                   *)
(* (src/__init__.py, NetBoxImactConfig) and the device selection form      *)
(* (src/forms.py, DeviceImpactAnalysisForm).                               *)
(*                                                                         *)
(* The form has one field, devices, a DynamicModelMultipleChoiceField with *)
(* queryset=Device.objects.all() and required=True.  Its cleaning is the   *)
(* cleaning the field class inherits from the host framework's             *)
(* ModelMultipleChoiceField: the operators below follow that method step   *)
(* by step with the arguments src/forms.py passes.                         *)
(*                                                                         *)
(* The Topology Store (devices, circuits, terminations) belongs to the     *)
(* host; the Host* actions are the host changing the Device table between  *)
(* requests.  Spec is the form on a changing Device table; SpecStore is    *)
(* the plugin on a store with devices, circuits and terminations.          *)
(***************************************************************************)
EXTENDS Integers, Sequences, FiniteSets, TLC

\* ---------------------------------------------------------------- bounds
MaxDevices == 2      \* device primary keys are 1..MaxDevices
MaxCircuits == 1     \* circuit primary keys are 1..MaxCircuits
MaxSubmit == 2       \* at most this many values posted for 'devices'

DevicePks == 1..MaxDevices
CircuitPks == 1..MaxCircuits

\* ------------------------------------------------- src/__init__.py:10-12
base_url == "impact-analysis"
\* A manifest that requires the setting 'top_n'.
required_settings_top_n == <<"top_n">>

required_settings == <<>>
default_settings == <<>>     \* the empty dict, as a sequence of <<key, value>> pairs

\* The settings a site may put in PLUGINS_CONFIG['netbox_imact'].
SettingNames == {"top_n", "depth"}

SeqToSet(s) == {s[i] : i \in 1..Len(s)}

\* PluginConfig.validate, the part that reads required_settings: the names
\* of the required settings the user configuration lacks (each raises
\* ImproperlyConfigured).
MissingRequired(user_config) ==
    {required_settings[i] : i \in 1..Len(required_settings)} \ user_config

\* PluginConfig.validate, the part that reads default_settings: the names of
\* the defaults written into the user configuration.
AppliedDefaults(user_config) ==
    {default_settings[i][1] : i \in 1..Len(default_settings)} \ user_config

\* ------------------------------------------------------ posted values
\* A posted value is a string, modelled as a sequence of characters.
DigitChar == [d \in 0..9 |-> CASE d = 0 -> "0" [] d = 1 -> "1" [] d = 2 -> "2"
                               [] d = 3 -> "3" [] d = 4 -> "4" [] d = 5 -> "5"
                               [] d = 6 -> "6" [] d = 7 -> "7" [] d = 8 -> "8"
                               [] d = 9 -> "9"]
Digits == {DigitChar[d] : d \in 0..9}
DigitValue(c) == CHOOSE d \in 0..9 : DigitChar[d] = c

\* str(pk): the canonical decimal string of a primary key.
RECURSIVE Str(_)
Str(n) == IF n < 10 THEN <<DigitChar[n]>>
          ELSE Append(Str(n \div 10), DigitChar[n % 10])

\* int(value) succeeds (the pk lookup can be built) iff value is a non-empty
\* string of digits; otherwise the lookup raises ValueError.
IsIntLiteral(tok) == Len(tok) > 0 /\ \A i \in 1..Len(tok) : tok[i] \in Digits

\* int(value) for a string of digits.
RECURSIVE IntValue(_)
IntValue(tok) == IF Len(tok) = 0 THEN 0
                 ELSE 10 * IntValue(SubSeq(tok, 1, Len(tok) - 1)) + DigitValue(tok[Len(tok)])

\* The values a request may post for 'devices': the canonical string of every
\* possible pk, the pk 1 with a leading zero, and a non-number.
Tokens == {Str(pk) : pk \in DevicePks} \cup {<<"0", "1">>, <<"x">>}

RECURSIVE SeqsUpTo(_, _)
SeqsUpTo(S, n) == IF n = 0 THEN {<<>>}
                  ELSE SeqsUpTo(S, n - 1) \cup
                       {Append(s, t) : s \in {q \in SeqsUpTo(S, n - 1) : Len(q) = n - 1}, t \in S}

\* A submission: the POST data, with or without the key 'devices'.
Submissions == [has_devices : {TRUE}, devices : SeqsUpTo(Tokens, MaxSubmit)]
               \cup {[has_devices |-> FALSE, devices |-> <<>>]}


\* ------------------------------------------------------ src/forms.py:5-11
\* The field declared with required=False.
required_off == FALSE

\* required=True (src/forms.py:10).
required == TRUE

\* The field declared with a query set evaluated once, in the class body.
FieldQueryset_snapshot(devs, loaded) == loaded

\* The field declared with queryset=Device.objects.none().
FieldQueryset_none(devs, loaded) == {}

\* queryset=Device.objects.all() (src/forms.py:7): a lazy query set, built
\* when the class body runs and copied unevaluated into every form instance,
\* so it reads the Device table when the form is validated; devs is the table
\* then, loaded the table when the class body ran.

FieldQueryset(devs, loaded) == devs

\* The widget's value_from_datadict: data.getlist('devices'), the empty list
\* when the key is missing.
value_from_datadict(data) == IF data.has_devices THEN data.devices ELSE <<>>

\* DynamicModelChoiceMixin.get_bound_field: binding the field narrows its
\* query set to the records named by the bound data (none() when there is no
\* data, or when a value is not a number and the filter raises).
BoundQueryset(qs, value) ==
    IF value = <<>> THEN {}
    ELSE IF \E v \in SeqToSet(value) : ~IsIntLiteral(v) THEN {}
    ELSE {pk \in qs : \E v \in SeqToSet(value) : IntValue(v) = pk}

NoError == [field |-> "", code |-> ""]
FieldError(c) == [field |-> "devices", code |-> c]

\* A field that keeps the values it finds and skips the others.
check_values_lenient(value, qs) ==
    LET vs == SeqToSet(value)
        found == {pk \in qs : \E v \in vs : IsIntLiteral(v) /\ IntValue(v) = pk}
    IN  [error |-> NoError, cleaned |-> found]

\* ModelMultipleChoiceField._check_values with the key 'pk': the values are
\* deduplicated (frozenset), each must build a pk lookup, the query set is
\* filtered by pk__in, and every value must be the str() of a pk found.

check_values(value, qs) ==
    LET vs == SeqToSet(value)
    IN  IF \E v \in vs : ~IsIntLiteral(v)
        THEN [error |-> FieldError("invalid_pk_value"), cleaned |-> {}]
        ELSE LET found == {pk \in qs : \E v \in vs : IntValue(v) = pk}
                 pks == {Str(pk) : pk \in found}
             IN  IF \E v \in vs : v \notin pks
                 THEN [error |-> FieldError("invalid_choice"), cleaned |-> {}]
                 ELSE [error |-> NoError, cleaned |-> found]

\* DynamicModelMultipleChoiceField.clean -> ModelMultipleChoiceField.clean:
\* an empty value is an error when the field is required and the empty query
\* set otherwise; a non-empty one goes through _check_values.
clean(value, qs) ==
    IF value = <<>>
    THEN IF required THEN [error |-> FieldError("required"), cleaned |-> {}]
         ELSE [error |-> NoError, cleaned |-> {}]
    ELSE check_values(value, qs)

\* Form.full_clean for the one field of DeviceImpactAnalysisForm: the field
\* is bound and cleaned against the Device table devs.
full_clean(data, devs, loaded) ==
    LET value == value_from_datadict(data)
        qs == BoundQueryset(FieldQueryset(devs, loaded), value)
    IN  clean(value, qs)


\* ------------------------------------------------------------------ state
VARIABLES
    devices,        \* Topology Store: pks of the Device records
    circuits,       \* Topology Store: pks of the Circuit records
    terminations,   \* Topology Store: <<circuit, device>> pairs
    status,         \* the plugin: "unloaded", "ready" or "improperly_configured"
    demanded,       \* required settings found missing when the plugin loaded
    supplied,       \* default settings written into the user configuration
    loadDevices,    \* the Device table when the form class body ran
    form,           \* the form instance of the current request
    prev            \* how the previous request's validation ended

vars == <<devices, circuits, terminations, status, demanded, supplied,
          loadDevices, form, prev>>

store == <<devices, circuits, terminations>>
plugin == <<status, demanded, supplied, loadDevices>>

NoData == [has_devices |-> FALSE, devices |-> <<>>]
NoForm == [stage |-> "none", data |-> NoData, at |-> {},
           error |-> NoError, cleaned |-> {}]

InitPlugin ==
    /\ status = "unloaded"
    /\ demanded = {}
    /\ supplied = {}
    /\ loadDevices = {}
    /\ form = NoForm
    /\ prev = "none"

\* The store holds devices only.
Init ==
    /\ devices \in SUBSET DevicePks
    /\ circuits = {}
    /\ terminations = {}
    /\ InitPlugin

\* The store holds devices, circuits and terminations.
InitStore ==
    /\ devices \in SUBSET DevicePks
    /\ circuits \in SUBSET CircuitPks
    /\ terminations \in SUBSET (circuits \X devices)
    /\ InitPlugin

\* ----------------------------------------------- the host writes the store
HostAddDevice ==
    \E d \in DevicePks \ devices :
        /\ devices' = devices \cup {d}
        /\ UNCHANGED <<circuits, terminations, plugin, form, prev>>

HostDeleteDevice ==
    \E d \in devices :
        /\ devices' = devices \ {d}
        /\ terminations' = {t \in terminations : t[2] # d}
        /\ UNCHANGED <<circuits, plugin, form, prev>>

\* ------------------------------------------------------------- the plugin
\* The host imports the package and validates config = NetBoxImactConfig
\* against the site's PLUGINS_CONFIG entry; importing forms.py runs the class
\* body of DeviceImpactAnalysisForm.
LoadPlugin ==
    /\ status = "unloaded"
    /\ \E user_config \in SUBSET SettingNames :
        /\ demanded' = MissingRequired(user_config)
        /\ IF MissingRequired(user_config) # {}
           THEN /\ status' = "improperly_configured"
                /\ UNCHANGED <<supplied, loadDevices>>
           ELSE /\ status' = "ready"
                /\ supplied' = AppliedDefaults(user_config)
                /\ loadDevices' = devices
    /\ UNCHANGED <<store, form, prev>>

Outcome(f) == IF f.stage # "cleaned" THEN prev
              ELSE IF f.error = NoError THEN "accepted" ELSE "rejected"

\* DeviceImpactAnalysisForm(data): a new request binds its POST data, once
\* the request before has validated its form; that form is gone.
NewForm ==
    /\ status = "ready"
    /\ form.stage # "bound"
    /\ \E data \in Submissions :
        form' = [stage |-> "bound", data |-> data, at |-> {},
                 error |-> NoError, cleaned |-> {}]
    /\ prev' = Outcome(form)
    /\ UNCHANGED <<store, plugin>>

\* A validation that takes the selected devices out of the Device table.
is_valid_writing ==
    /\ form.stage = "bound"
    /\ LET r == full_clean(form.data, devices, loadDevices)
       IN  /\ form' = [form EXCEPT !.stage = "cleaned", !.at = devices,
                                   !.error = r.error, !.cleaned = r.cleaned]
           /\ devices' = devices \ r.cleaned
    /\ UNCHANGED <<circuits, terminations, plugin, prev>>

\* form.is_valid(): full_clean against the Device table as it is now; on
\* success cleaned_data['devices'] is set, otherwise errors['devices'].
is_valid ==
    /\ form.stage = "bound"
    /\ LET r == full_clean(form.data, devices, loadDevices)
       IN  form' = [form EXCEPT !.stage = "cleaned", !.at = devices,
                                !.error = r.error, !.cleaned = r.cleaned]
    /\ UNCHANGED <<store, plugin, prev>>

Next ==
    \/ HostAddDevice
    \/ HostDeleteDevice
    \/ LoadPlugin
    \/ NewForm
    \/ is_valid

Spec == Init /\ [][Next]_vars

\* The plugin alone, on a store the host leaves as it is.
NextStore ==
    \/ LoadPlugin
    \/ NewForm
    \/ is_valid

SpecStore == InitStore /\ [][NextStore]_vars

TypeOK ==
    /\ devices \subseteq DevicePks
    /\ circuits \subseteq CircuitPks
    /\ terminations \subseteq (circuits \X devices)
    /\ status \in {"unloaded", "ready", "improperly_configured"}
    /\ form.stage \in {"none", "bound", "cleaned"}
    /\ form.data \in Submissions
    /\ prev \in {"none", "accepted", "rejected"}


\* ------------------------------------------------------------- properties
\* What the current request posted for 'devices', and what came of it.
Posted == SeqToSet(value_from_datadict(form.data))
Validated == form.stage = "cleaned"
Accepted == Validated /\ form.error = NoError
Rejected == Validated /\ form.error # NoError

\* A posted value names a device of the catalog cat: it is the decimal
\* string of the pk of a device in cat.
Names(v, cat) == \E pk \in cat : v = Str(pk)

\* Every posted value is the decimal string of a positive integer, written
\* as str() writes it.
WellFormed ==
    \A v \in Posted : IsIntLiteral(v) /\ IntValue(v) >= 1 /\ v = Str(IntValue(v))

\* C1 as stated: a validated, well-formed submission with at least one device
\* ID that exists in the catalog at validation time is accepted.
C1_AsStated ==
    (Validated /\ WellFormed
        /\ \E v \in Posted : Names(v, form.at))
    => Accepted

\* C1 amended: a validated submission that posts at least one value, every
\* one of them the decimal string of the pk of a device in the catalog at
\* validation time, is accepted, and its cleaned 'devices' are exactly the
\* devices posted.
C1_AcceptsExisting ==
    (Validated /\ Posted # {} /\ \A v \in Posted : Names(v, form.at))
    => (Accepted /\ form.cleaned = {IntValue(v) : v \in Posted})

C1_Witness ==
    /\ Accepted
    /\ Posted # {} /\ \A v \in Posted : Names(v, form.at)
    /\ Cardinality(form.cleaned) = 2

\* C2: a validated submission with zero selected devices (the key missing or
\* its list empty) has the error 'required' on the field 'devices' and no
\* cleaned selection, whatever the catalog.
C2_EmptyRejected ==
    (Validated /\ Posted = {})
    => (form.error = FieldError("required") /\ form.cleaned = {} /\ ~Accepted)

C2_Witness ==
    /\ Validated /\ Posted = {}
    /\ form.data.has_devices
    /\ form.at = {}
    /\ Rejected

\* C3: an accepted selection is a subset of the devices in the catalog at
\* validation time, and a submission with any value that names no device of
\* that catalog is rejected as a whole, with an error on 'devices'.
C3_SelectionSubset ==
    /\ Accepted => form.cleaned \subseteq form.at
    /\ (Validated /\ \E v \in Posted : ~Names(v, form.at))
        => (Rejected /\ form.error.field = "devices" /\ form.cleaned = {})

C3_Witness ==
    /\ Rejected
    /\ \E v \in Posted : Names(v, form.at)
    /\ \E v \in Posted : IsIntLiteral(v) /\ IntValue(v) \notin form.at

\* C8: the manifest has no required and no default settings and the base
\* url 'impact-analysis'; loading the plugin never finds a required setting
\* missing and never writes a default, whatever the site configured.
C8_NoConfiguration ==
    /\ required_settings = <<>>
    /\ default_settings = <<>>
    /\ base_url = "impact-analysis"
    /\ demanded = {}
    /\ supplied = {}
    /\ status # "improperly_configured"

C8_Witness == status = "ready" /\ demanded = {} /\ supplied = {}

\* C9: a step of the plugin (loading it, constructing the form, validating a
\* submission: the steps that change the plugin's state, the form or the
\* record of the previous outcome) leaves devices, circuits and terminations
\* unchanged.
C9_NoStoreWrites ==
    [][(plugin' # plugin \/ form' # form \/ prev' # prev) => UNCHANGED store]_vars

C9_Witness ==
    /\ Accepted
    /\ prev = "rejected"
    /\ devices = form.at
    /\ terminations # {}

\* C10: the outcome of a validation is decided by the values posted in that
\* request and the catalog at validation time alone: accepted exactly when
\* at least one value is posted and every value names a device of that
\* catalog; neither the previous outcome nor the catalog at class definition
\* enters.
C10_Independent ==
    Validated =>
        (Accepted <=> (Posted # {} /\ \A v \in Posted : Names(v, form.at)))

C10_Witness ==
    /\ Accepted
    /\ prev = "rejected"
    /\ form.cleaned \ loadDevices # {}

====
